---- MODULE Spec2Model ----
(***************************************************************************)
(* The editable d-DNNF graph (IntermediateGraph) of the d-DNNF reasoner,   *)
(* its lowering into a node array (rebuild), the closest-unsplittable-AND  *)
(* locator, the Tseitin back-translation and the clause insertion          *)
(* (add_clause); and the containers of the sampler, Config and Sample.     *)
(*                                                                         *)
(* Vertices are NodeIndex values 0, 1, 2, ...; a graph is a record         *)
(*   [nodes |-> function from the vertices to their TId,                   *)
(*    edges |-> the edges <<source, target>> in insertion order].          *)
(* Indices into the lowered node array are 0-based as in the source, so    *)
(* node i of a sequence s is s[i + 1].                                     *)
(***************************************************************************)
EXTENDS Integers, Sequences, FiniteSets, TLC

VARIABLES graph, root, nx_literals, literal_children,
          or_support, panicked, history, last, files

\* The sampler's containers: a Sample with the configs handed to it so far,
\* and a Config with the name of the latest operation on it.
VARIABLES sample, added, sample_state, debug_assertions, config, cop

graphVars == <<graph, root, nx_literals, literal_children,
               or_support, panicked, history, last, files>>

sampleVars == <<sample, added, sample_state, debug_assertions>>

configVars == <<config, cop>>

vars == <<graphVars, sampleVars, configVars>>

\* ------------------------------------------------------------------ bounds

\* Largest variable id a clause handed to add_clause may mention.
MaxVar == 3
\* Longest clause handed to add_clause.
MaxClauseLen == 2
\* Number of add_clause calls in one run.
MaxEdits == 2
\* Largest variable id of the configs handed to a Sample.
MaxSampleVar == 1
\* Longest literal list handed to Config::from and to Config::extend.
MaxConfigLen == 2
\* Number of configs handed to one Sample.
MaxConfigs == 3
\* Largest variable id of the literals of the Config that is operated on.
MaxConfigVar == 2
\* Longest literal list of a Config made by Config::from_disjoint.
MaxJoined == 3

\* ------------------------------------------------------------ small helpers

Abs(x) == IF x < 0 THEN -x ELSE x

Signum(x) == IF x < 0 THEN -1 ELSE IF x > 0 THEN 1 ELSE 0

Range(s) == {s[i] : i \in DOMAIN s}

Rev(s) == [i \in 1..Len(s) |-> s[Len(s) + 1 - i]]

\* The map m with key k set to v
Insert(m, k, v) == [x \in DOMAIN m \cup {k} |-> IF x = k THEN v ELSE m[x]]

\* 0-based vertex table from a 1-based listing
Vtx(s) == [i \in 0..(Len(s) - 1) |-> s[i + 1]]

IsLiteralKind(t) == t \in {"PositiveLiteral", "NegativeLiteral"}

\* --------------------------------------------- the graph library (petgraph)

\* graph.neighbors(nx): the targets of nx's outgoing edges, the edge added
\* last first.
neighbors(g, nx) ==
    Rev(SelectSeq(g.edges, LAMBDA e : e[1] = nx))

Targets(es) == [i \in 1..Len(es) |-> es[i][2]]

\* DfsPostOrder: a stack of vertices, the sets discovered and finished.
RECURSIVE DfsNext(_, _, _, _, _)
DfsNext(g, stack, discovered, finished, out) ==
    IF stack = <<>> THEN out
    ELSE LET nx == stack[Len(stack)] IN
         IF nx \notin discovered
         THEN LET d2   == discovered \cup {nx}
                  succ == SelectSeq(Targets(neighbors(g, nx)),
                                    LAMBDA s : s \notin d2)
              IN  DfsNext(g, stack \o succ, d2, finished, out)
         ELSE LET rest == SubSeq(stack, 1, Len(stack) - 1) IN
              IF nx \notin finished
              THEN DfsNext(g, rest, discovered, finished \cup {nx},
                           Append(out, nx))
              ELSE DfsNext(g, rest, discovered, finished, out)

DfsPostOrder(g, start) == DfsNext(g, <<start>>, {}, {}, <<>>)

\* Bfs: a queue of vertices; a vertex is marked discovered when it is queued.
RECURSIVE BfsNext(_, _, _, _)
BfsNext(g, queue, discovered, out) ==
    IF queue = <<>> THEN out
    ELSE LET node == Head(queue)
             succ == Targets(neighbors(g, node))
             \* the successors not discovered yet, each queued once
             fresh == SelectSeq(
                        [i \in 1..Len(succ) |->
                            IF succ[i] \notin discovered
                               /\ \A j \in 1..(i - 1) : succ[j] # succ[i]
                            THEN succ[i] ELSE -1],
                        LAMBDA s : s # -1)
         IN  BfsNext(g, Tail(queue) \o fresh,
                     discovered \cup Range(fresh), Append(out, node))

Bfs(g, start) == BfsNext(g, <<start>>, {start}, <<>>)

\* is_cyclic_directed: some vertex reaches itself along one edge or more.
Successors(g, S) == {e[2] : e \in {x \in Range(g.edges) : x[1] \in S}}

RECURSIVE ReachFrom(_, _)
ReachFrom(g, S) ==
    LET T == S \cup Successors(g, S) IN
    IF T = S THEN S ELSE ReachFrom(g, T)

is_cyclic_directed(g) ==
    \E v \in DOMAIN g.nodes : v \in ReachFrom(g, Successors(g, {v}))

\* ------------------------------------------------------------ the node model

new_node(count, ntype) ==
    [marker |-> FALSE, count |-> count, temp |-> 0,
     partial_derivative |-> 0, parents |-> <<>>, ntype |-> ntype]

new_and(count, children) ==
    new_node(count, [tag |-> "And", children |-> children])

\* new_or with its first two arguments taken for one another
new_orSwapped(decision_var, count, children) ==
    new_node(decision_var, [tag |-> "Or", children |-> children])

new_or(decision_var, count, children) ==
    new_node(count, [tag |-> "Or", children |-> children])

new_literal(literal) ==
    new_node(1, [tag |-> "Literal", literal |-> literal])

new_bool(b) ==
    IF b THEN new_node(1, [tag |-> "True"])
         ELSE new_node(0, [tag |-> "False"])

\* The cardinality of an And node: the product of its children's counts.
RECURSIVE calc_and_count(_, _)
calc_and_count(nodes, indices) ==
    IF indices = <<>> THEN 1
    ELSE nodes[Head(indices) + 1].count * calc_and_count(nodes, Tail(indices))

\* The cardinality of an Or node: the sum of its children's counts.
RECURSIVE calc_or_count(_, _)
calc_or_count(nodes, indices) ==
    IF indices = <<>> THEN 0
    ELSE nodes[Head(indices) + 1].count + calc_or_count(nodes, Tail(indices))

\* ------------------------------------------------------------------ rebuild

\* parsed_nodes[i].parents.push(next_indize) for every i of children
RECURSIVE PushParents(_, _, _)
PushParents(parsed_nodes, children, next_indize) ==
    IF children = <<>> THEN parsed_nodes
    ELSE LET i == Head(children) + 1 IN
         PushParents(
            [parsed_nodes EXCEPT ![i].parents = Append(@, next_indize)],
            Tail(children), next_indize)

\* The node of the vertex nx of kind kind with the child indices neighs
NextNode(kind, literal, parsed_nodes, neighs) ==
    CASE IsLiteralKind(kind) -> new_literal(literal)
      [] kind = "And" -> new_and(calc_and_count(parsed_nodes, neighs), neighs)
      [] kind = "Or" -> new_or(0, calc_or_count(parsed_nodes, neighs), neighs)
      [] kind = "True" -> new_bool(TRUE)
      [] kind = "False" -> new_bool(FALSE)

\* One turn of the loop of rebuild per vertex of the post-order walk:
\* RebuildLoop looks up the children, RebuildStep files the node next.
RECURSIVE RebuildLoop(_, _, _, _, _, _, _)
RECURSIVE RebuildStep(_, _, _, _, _, _, _, _)
RebuildStep(g, nxl, order, nd_to_usize, parsed_nodes, literals, true_nodes, next) ==
    LET idx == Len(parsed_nodes)
        tag == next.ntype.tag
    IN RebuildLoop(g, nxl, Tail(order),
          Insert(nd_to_usize, Head(order), idx),
          Append(IF tag \in {"And", "Or"}
                 THEN PushParents(parsed_nodes, next.ntype.children, idx)
                 ELSE parsed_nodes,
                 next),
          IF tag = "Literal" THEN Insert(literals, next.ntype.literal, idx)
          ELSE literals,
          IF tag = "True" THEN Append(true_nodes, idx) ELSE true_nodes)

RebuildLoop(g, nxl, order, nd_to_usize, parsed_nodes, literals, true_nodes) ==
    IF order = <<>>
    THEN [ok |-> TRUE, nodes |-> parsed_nodes, literals |-> literals,
          true_nodes |-> true_nodes]
    ELSE
    LET nx   == Head(order)
        kind == g.nodes[nx]
        nbs  == Targets(neighbors(g, nx))
        fail == [ok |-> FALSE, nodes |-> parsed_nodes,
                 literals |-> literals, true_nodes |-> true_nodes]
    IN
    IF \E i \in 1..Len(nbs) : nbs[i] \notin DOMAIN nd_to_usize
    THEN fail          \* unwrap of a child that was not placed
    ELSE IF IsLiteralKind(kind) /\ nx \notin DOMAIN nxl
    THEN fail          \* unwrap of a literal value that is missing
    ELSE RebuildStep(g, nxl, order, nd_to_usize, parsed_nodes, literals,
                     true_nodes,
                     NextNode(kind, IF IsLiteralKind(kind) THEN nxl[nx] ELSE 0,
                              parsed_nodes,
                              [i \in 1..Len(nbs) |-> nd_to_usize[nbs[i]]]))


\* rebuild over a walk that lists a vertex before its children
rebuildPreOrder(g, nxl, start) ==
    RebuildLoop(g, nxl, Rev(DfsPostOrder(g, start)), << >>, << >>, << >>,
                << >>)

\* rebuild(alt_root) on the graph g with the literal values nxl; start is
\* alt_root.unwrap_or(self.root).
rebuild(g, nxl, start) ==
    RebuildLoop(g, nxl, DfsPostOrder(g, start), << >>, << >>, << >>, << >>)

\* ------------------------------------------------------- literal supports

\* The signed literal values occurring in the subcircuit below nx.
LiteralsBelow(g, nxl, nx) ==
    {nxl[v] : v \in {u \in ReachFrom(g, {nx}) : u \in DOMAIN nxl}}

\* get_literal_diffs: the literal support of every And vertex (and, when
\* withOr, of every Or vertex) that the root reaches.
get_literal_diffs(g, nxl, rt, withOr) ==
    LET keys == {v \in ReachFrom(g, {rt}) :
                    \/ g.nodes[v] = "And"
                    \/ withOr /\ g.nodes[v] = "Or"}
    IN [v \in keys |-> LiteralsBelow(g, nxl, v)]

\* ------------------------------------------------ closest_unsplitable_and

\* CachedAnds with a literal of the clause looked up in either polarity
RECURSIVE CachedAndsByVariable(_, _, _, _, _)
CachedAndsByVariable(g, lc, clause, walk, cached_ands) ==
    IF walk = <<>> THEN [ok |-> TRUE, ands |-> cached_ands]
    ELSE LET nx == Head(walk) IN
         IF g.nodes[nx] = "And"
         THEN IF nx \notin DOMAIN lc
              THEN [ok |-> FALSE, ands |-> cached_ands]
              ELSE IF \E i \in 1..Len(clause) :
                         clause[i] \in lc[nx] \/ (-clause[i]) \in lc[nx]
                   THEN CachedAndsByVariable(g, lc, clause, Tail(walk),
                                             Append(cached_ands, nx))
                   ELSE CachedAndsByVariable(g, lc, clause, Tail(walk),
                                             cached_ands)
         ELSE CachedAndsByVariable(g, lc, clause, Tail(walk), cached_ands)

\* The loop over the breadth-first walk: the And vertices whose literal
\* support holds a literal of the clause, in the order of the walk. The
\* lookup of a support that is missing panics.
RECURSIVE CachedAnds(_, _, _, _, _)
CachedAnds(g, lc, clause, walk, cached_ands) ==
    IF walk = <<>> THEN [ok |-> TRUE, ands |-> cached_ands]
    ELSE LET nx == Head(walk) IN
         IF g.nodes[nx] = "And"
         THEN IF nx \notin DOMAIN lc
              THEN [ok |-> FALSE, ands |-> cached_ands]
              ELSE IF \E i \in 1..Len(clause) : clause[i] \in lc[nx]
                   THEN CachedAnds(g, lc, clause, Tail(walk),
                                   Append(cached_ands, nx))
                   ELSE CachedAnds(g, lc, clause, Tail(walk), cached_ands)
         ELSE CachedAnds(g, lc, clause, Tail(walk), cached_ands)

\* sort_unstable_by_key(Reverse(len)): every arrangement of the candidates
\* by descending support size; the order of equal sizes is not fixed.
RECURSIVE Arrangements(_)
Arrangements(S) ==
    IF S = {} THEN {<<>>}
    ELSE UNION {{<<x>> \o s : s \in Arrangements(S \ {x})} : x \in S}

SortOutcomes(ands, lc) ==
    {s \in Arrangements(Range(ands)) :
        \A i \in 1..(Len(ands) - 1) :
            Cardinality(lc[s[i]]) >= Cardinality(lc[s[i + 1]])}

\* Walk without the break: a candidate that fails the test is passed over
RECURSIVE WalkNoBreak(_, _, _, _)
WalkNoBreak(sorted, lc, i, try_and) ==
    IF i > Len(sorted) THEN try_and
    ELSE IF \A j \in (i + 1)..Len(sorted) : lc[sorted[j]] \subseteq lc[sorted[i]]
         THEN WalkNoBreak(sorted, lc, i + 1, sorted[i])
         ELSE WalkNoBreak(sorted, lc, i + 1, try_and)

\* The walk over the sorted candidates, from position i with the current
\* choice try_and.
RECURSIVE Walk(_, _, _, _)
Walk(sorted, lc, i, try_and) ==
    IF i > Len(sorted) THEN try_and
    ELSE IF \A j \in (i + 1)..Len(sorted) : lc[sorted[j]] \subseteq lc[sorted[i]]
         THEN Walk(sorted, lc, i + 1, sorted[i])
         ELSE try_and

\* The results closest_unsplitable_and(clause) can have: ok is FALSE when
\* the call panics.
closest_unsplitable_and(g, rt, lc, clause) ==
    IF clause = <<>> THEN {[ok |-> TRUE, nx |-> 0, lits |-> {}]}
    ELSE LET found == CachedAnds(g, lc, clause, Bfs(g, rt), <<>>) IN
         IF ~found.ok \/ found.ands = <<>>
         THEN {[ok |-> FALSE, nx |-> 0, lits |-> {}]}
         ELSE {LET nx == Walk(sorted, lc, 1, sorted[1])
               IN  [ok |-> TRUE, nx |-> nx, lits |-> lc[nx]] :
               sorted \in SortOutcomes(found.ands, lc)}

\* ------------------------------------------------------- transform_to_cnf

\* An Option<&[i32]>
None == [some |-> FALSE, val |-> <<>>]
Some(c) == [some |-> TRUE, val |-> c]

\* A line of the CNF: the literals, then the closing 0.
Line(lits) == Append(lits, 0)

\* The loop over the lowered nodes. clause_var[index] is the CNF literal of
\* node index; a True or False node panics.
RECURSIVE TseitinLoop(_, _, _, _, _, _, _)
TseitinLoop(nodes, index, re_index_mapping, cnf, counter, lit_counter, clause_var) ==
    IF index >= Len(nodes)
    THEN [ok |-> TRUE, map |-> re_index_mapping, cnf |-> cnf,
          counter |-> counter, clause_var |-> clause_var]
    ELSE
    LET node == nodes[index + 1]
        tag  == node.ntype.tag
    IN
    CASE tag = "And" ->
           LET ch    == node.ntype.children
               lines == [j \in 1..Len(ch) |->
                           Line(<<-counter, clause_var[ch[j] + 1]>>)]
               long  == Line(<<counter>> \o
                             [j \in 1..Len(ch) |-> -clause_var[ch[j] + 1]])
           IN TseitinLoop(nodes, index + 1, re_index_mapping,
                          cnf \o lines \o <<long>>, counter + 1, lit_counter,
                          [clause_var EXCEPT ![index + 1] = counter])
      [] tag = "Or" ->
           LET ch    == node.ntype.children
               lines == [j \in 1..Len(ch) |->
                           Line(<<counter, -clause_var[ch[j] + 1]>>)]
               long  == Line(<<-counter>> \o
                             [j \in 1..Len(ch) |-> clause_var[ch[j] + 1]])
           IN TseitinLoop(nodes, index + 1, re_index_mapping,
                          cnf \o lines \o <<long>>, counter + 1, lit_counter,
                          [clause_var EXCEPT ![index + 1] = counter])
      [] tag = "Literal" ->
           LET literal  == node.ntype.literal
               cached   == Abs(literal) \in DOMAIN re_index_mapping
               re_index == IF cached THEN re_index_mapping[Abs(literal)]
                           ELSE lit_counter
               map2     == IF cached THEN re_index_mapping
                           ELSE Insert(re_index_mapping, Abs(literal),
                                       lit_counter)
               lc2      == IF cached THEN lit_counter ELSE lit_counter + 1
           IN TseitinLoop(nodes, index + 1, map2, cnf, counter, lc2,
                          [clause_var EXCEPT ![index + 1] =
                              IF literal > 0 THEN re_index ELSE -re_index])
      [] OTHER ->
           [ok |-> FALSE, map |-> re_index_mapping, cnf |-> cnf,
            counter |-> counter, clause_var |-> clause_var]

\* Swaps key with value in the key value pairs
SwapPairs(m) ==
    [v \in {m[k] : k \in DOMAIN m} |-> CHOOSE k \in DOMAIN m : m[k] = v]

NoCnf == [ok |-> FALSE, cnf |-> [nvars |-> 0, nclauses |-> 0, lines |-> <<>>],
          re_indices |-> << >>]

\* The end of transform_to_cnf: the unit clause of the root, the new
\* clause renumbered (the lookup of a variable that was not renumbered
\* panics), the header and the swapped map.
FinishCnf(nodes, loop, clause) ==
    IF ~loop.ok THEN NoCnf
    ELSE IF clause.some /\ \E i \in 1..Len(clause.val) :
                              Abs(clause.val[i]) \notin DOMAIN loop.map
    THEN NoCnf
    ELSE
    LET unit  == Line(<<loop.clause_var[Len(nodes)]>>)
        extra == IF clause.some
                 THEN <<Line([i \in 1..Len(clause.val) |->
                                IF clause.val[i] > 0
                                THEN loop.map[Abs(clause.val[i])]
                                ELSE -loop.map[Abs(clause.val[i])]])>>
                 ELSE <<>>
    IN [ok |-> TRUE,
        cnf |-> [nvars |-> loop.counter - 1,
                 nclauses |-> Len(loop.cnf) + 1 + Len(extra),
                 lines |-> loop.cnf \o <<unit>> \o extra],
        re_indices |-> SwapPairs(loop.map)]

\* transform_to_cnf from the lowered nodes on; counter is the first Tseitin
\* variable.
EmitCnf(low, counter, clause) ==
    IF ~low.ok THEN NoCnf
    ELSE FinishCnf(low.nodes,
                   TseitinLoop(low.nodes, 0, << >>, <<>>, counter, 1,
                               [i \in 1..Len(low.nodes) |-> 0]),
                   clause)

\* transform_to_cnf(starting_point, clause) on the graph g with the literal
\* values nxl and the supports lc. The CNF is its header (nvars, nclauses)
\* and its lines; re_indices is the returned map, compact id to original id.
\* The lookup of a support that is missing panics.
transform_to_cnf(g, nxl, lc, starting_point, clause) ==
    IF starting_point \notin DOMAIN lc THEN NoCnf
    ELSE EmitCnf(rebuild(g, nxl, starting_point),
                 Cardinality({Abs(v) : v \in lc[starting_point]}) + 1,
                 clause)

\* -------------------------------------------------- meaning of the circuits

\* The offset of the literals made for Tseitin variables.
TseitinOffset == 1000000

\* A cube is a set of literals that holds no variable in both polarities.
\* Cubes(g, nxl, v) is a set of cubes whose disjunction is the circuit below
\* v: an And joins one cube of every child, an Or collects the cubes of its
\* children.
Consistent(c) == \A l \in c : (-l) \notin c

RECURSIVE JoinCubes(_, _, _, _)
RECURSIVE Cubes(_, _, _)
JoinCubes(g, nxl, ch, acc) ==
    IF ch = {} \/ acc = {} THEN acc
    ELSE LET c == CHOOSE x \in ch : TRUE IN
         JoinCubes(g, nxl, ch \ {c},
                   {x \in {a \cup b : a \in acc, b \in Cubes(g, nxl, c)} :
                       Consistent(x)})

Cubes(g, nxl, v) ==
    LET kind == g.nodes[v]
        ch   == Successors(g, {v})
    IN CASE kind = "And" -> JoinCubes(g, nxl, ch, {{}})
         [] kind = "Or"  -> UNION {Cubes(g, nxl, c) : c \in ch}
         [] IsLiteralKind(kind) -> {{nxl[v]}}
         [] kind = "True" -> {{}}
         [] OTHER -> {}

\* The assignment A, the set of the true variables among Vs, agrees with
\* the cube c on the variables Vs.
Agrees(A, c, Vs) ==
    \A l \in c : Abs(l) \in Vs => (IF l > 0 THEN l \in A ELSE (-l) \notin A)

\* The variables of the literals below v
VarsBelow(g, nxl, v) == {Abs(l) : l \in LiteralsBelow(g, nxl, v)}

\* The variables of the circuit as it was built: the literals that are not
\* Tseitin literals. Literal vertices are never removed.
OriginalVars(nxl) == {x \in {Abs(nxl[v]) : v \in DOMAIN nxl} : x <= TseitinOffset}

\* The models of the circuit below v over the variables Vs, every other
\* variable of the circuit projected away.
ModelsOver(g, nxl, v, Vs) ==
    LET cs == Cubes(g, nxl, v) IN
    {A \in SUBSET Vs : \E c \in cs : Agrees(A, c, Vs)}

\* The models of the circuit, projected onto the original variables.
Models(g, nxl, rt) == ModelsOver(g, nxl, rt, OriginalVars(nxl))

\* The assignments over Vs that satisfy the clause
ClauseModels(clause, Vs) ==
    {A \in SUBSET Vs :
        \E i \in 1..Len(clause) :
            IF clause[i] > 0 THEN clause[i] \in A ELSE (-clause[i]) \notin A}

\* ------------------------------------------------------ the compiler boundary

\* Reading a line of the CNF back: the literals up to the closing 0.
RECURSIVE ParseLine(_)
ParseLine(line) ==
    IF line = <<>> \/ Head(line) = 0 THEN <<>>
    ELSE <<Head(line)>> \o ParseLine(Tail(line))

\* The models of the clauses cs (sets of literals) over the variables v..n,
\* each model the set of its true variables: branch on v, drop the clauses
\* the choice satisfies and the literals it falsifies.
RECURSIVE Solve(_, _, _)
Solve(cs, v, n) ==
    IF {} \in cs THEN {}
    ELSE IF v > n THEN {{}}
    ELSE {T \cup {v} : T \in Solve({c \ {-v} : c \in {d \in cs : v \notin d}},
                                   v + 1, n)}
         \cup Solve({c \ {v} : c \in {d \in cs : (-v) \notin d}}, v + 1, n)

\* The models of a CNF over its variables 1..nvars
CnfModels(cnf) ==
    Solve({Range(ParseLine(cnf.lines[k])) : k \in 1..Len(cnf.lines)},
          1, cnf.nvars)

RECURSIVE SortedSeq(_)
SortedSeq(S) ==
    IF S = {} THEN <<>>
    ELSE LET m == CHOOSE x \in S : \A y \in S : x <= y
         IN  <<m>> \o SortedSeq(S \ {m})

RECURSIVE Pow2(_)
Pow2(n) == IF n = 0 THEN 1 ELSE 2 * Pow2(n - 1)

RECURSIVE ModelKey(_)
ModelKey(T) ==
    IF T = {} THEN 0
    ELSE LET v == CHOOSE x \in T : TRUE IN Pow2(v - 1) + ModelKey(T \ {v})

\* The literal of variable v under the model T
LitOf(T, v) == IF v \in T THEN v ELSE -v

\* Literals in the order 1, -1, 2, -2, ...
LitKey(l) == 2 * Abs(l) + (IF l > 0 THEN 0 ELSE 1)
LitOfKey(k) == IF k % 2 = 0 THEN k \div 2 ELSE -(k \div 2)

\* The circuit of the models ms (k of them, two or more) over the literals
\* lits (L of them, vertex i - 1 carries lits[i]): the And of model i is
\* vertex L + i - 1 and joins the model's literals of the variables vseq,
\* the Or is vertex L + k; when top, an And at L + k + 1 joins the Or and the
\* literals of the variables cseq, which all models share.
RECURSIVE ModelEdges(_, _, _, _, _)
ModelEdges(ms, lits, vseq, L, i) ==
    IF i > Len(ms) THEN <<>>
    ELSE [j \in 1..Len(vseq) |->
            <<L + i - 1,
              (CHOOSE p \in 1..L : lits[p] = LitOf(ms[i], vseq[j])) - 1>>]
         \o ModelEdges(ms, lits, vseq, L, i + 1)

Assemble(ms, lits, vseq, cseq, L, k, top) ==
    LET litKinds == [i \in 1..L |-> IF lits[i] > 0 THEN "PositiveLiteral"
                                    ELSE "NegativeLiteral"]
        orEdges  == [i \in 1..k |-> <<L + k, L + i - 1>>]
        topEdges == [j \in 1..Len(cseq) |->
                       <<L + k + 1,
                         (CHOOSE p \in 1..L : lits[p] = LitOf(ms[1], cseq[j]))
                         - 1>>]
                    \o <<<<L + k + 1, L + k>>>>
    IN [graph |->
           [nodes |-> Vtx(litKinds \o [i \in 1..k |-> "And"]
                          \o (IF top THEN <<"Or", "And">> ELSE <<"Or">>)),
            edges |-> ModelEdges(ms, lits, vseq, L, 1) \o orEdges
                      \o (IF top THEN topEdges ELSE <<>>)],
        root |-> IF top THEN L + k + 1 ELSE L + k,
        nx_literals |-> [v \in 0..(L - 1) |-> lits[v + 1]]]

\* The circuit of the models ms over the variables 1..n
Circuit(ms, lits, n, common, shape) ==
    IF Len(ms) = 0
    THEN [graph |-> [nodes |-> Vtx(<<"False">>), edges |-> <<>>],
          root |-> 0, nx_literals |-> << >>]
    ELSE IF Len(ms) = 1
    THEN [graph |->
             [nodes |-> Vtx([i \in 1..Len(lits) |->
                               IF lits[i] > 0 THEN "PositiveLiteral"
                               ELSE "NegativeLiteral"] \o <<"And">>),
              edges |-> ModelEdges(ms, lits, SortedSeq(1..n), Len(lits), 1)],
          root |-> Len(lits),
          nx_literals |-> [v \in 0..(Len(lits) - 1) |-> lits[v + 1]]]
    ELSE IF shape = "factored" /\ common # {}
    THEN Assemble(ms, lits, SortedSeq((1..n) \ common), SortedSeq(common),
                  Len(lits), Len(ms), TRUE)
    ELSE Assemble(ms, lits, SortedSeq(1..n), <<>>, Len(lits), Len(ms), FALSE)

\* The models M in the order of their keys, and their literals in the order
\* 1, -1, 2, -2, ...
ModelSeq(M, keys) ==
    [i \in 1..Len(keys) |-> CHOOSE T \in M : ModelKey(T) = keys[i]]

LitSeq(ks) == [i \in 1..Len(ks) |-> LitOfKey(ks[i])]

\* compile_cnf and build_ddnnf: a d-DNNF of the CNF over all its variables.
\* Its literal vertices come first. With no model it is a single False
\* vertex; with one model an And of the literals; otherwise, by shape,
\*   "dnf"      an Or of one And of literals per model;
\*   "factored" an And of the literals common to all models and of an Or
\*              of one And per model over the other variables.
Compiled(M, n, shape) ==
    Circuit(ModelSeq(M, SortedSeq({ModelKey(T) : T \in M})),
            LitSeq(SortedSeq({LitKey(LitOf(T, v)) : T \in M, v \in 1..n})),
            n,
            {v \in 1..n : \A T1, T2 \in M : LitOf(T1, v) = LitOf(T2, v)},
            shape)

compile(cnf, shape) == Compiled(CnfModels(cnf), cnf.nvars, shape)

Shapes == {"dnf", "factored"}


\* -------------------------------------------------------------- add_clause

\* graph.add_node(kind): the new vertex gets the next index.
add_node(g, kind) ==
    [g EXCEPT !.nodes = Insert(g.nodes, Cardinality(DOMAIN g.nodes), kind)]

\* graph.add_edge(a, b, ())
add_edge(g, a, b) == [g EXCEPT !.edges = Append(g.edges, <<a, b>>)]

\* AddEdges with the cache read at the vertex itself instead of at the child
RECURSIVE AddEdgesOwnKey(_, _, _, _)
AddEdgesOwnKey(g, new_nx, children, cache) ==
    IF children = <<>> THEN g
    ELSE AddEdgesOwnKey(add_edge(g, new_nx, new_nx), new_nx,
                        Tail(children), cache)

\* add_edge(new_nx, cache[child]) for every child, in the order of children
RECURSIVE AddEdges(_, _, _, _)
AddEdges(g, new_nx, children, cache) ==
    IF children = <<>> THEN g
    ELSE AddEdges(add_edge(g, new_nx, cache[Head(children)]), new_nx,
                  Tail(children), cache)

\* The maps literals_nx the reindexing can build: value to a vertex that
\* carries it (the last insertion wins when several vertices carry a value,
\* and the map is read in no fixed order).
RECURSIVE ReindexOver(_, _)
ReindexOver(nxl, vals) ==
    IF vals = {} THEN {<< >>}
    ELSE LET l == CHOOSE x \in vals : TRUE IN
         {Insert(f, l, v) : f \in ReindexOver(nxl, vals \ {l}),
                            v \in {u \in DOMAIN nxl : nxl[u] = l}}

ReindexOutcomes(nxl) == ReindexOver(nxl, {nxl[v] : v \in DOMAIN nxl})

\* The walk that adds the new subgraph, one vertex of sub per turn. A real
\* literal is looked up among the existing vertices (the lookup of a value
\* no vertex carries panics); a Tseitin literal and every inner vertex get
\* a new vertex.
RECURSIVE SpliceLoop(_, _, _, _, _, _, _)
SpliceLoop(sub, order, re_indices, literals_nx, g, nxl, cache) ==
    IF order = <<>> THEN [ok |-> TRUE, g |-> g, nxl |-> nxl, cache |-> cache]
    ELSE
    LET nx       == Head(order)
        kind     == sub.graph.nodes[nx]
        lit      == sub.nx_literals[nx]
        real     == IsLiteralKind(kind) /\ Abs(lit) \in DOMAIN re_indices
        signed   == re_indices[Abs(lit)] * Signum(lit)
        fresh    == Cardinality(DOMAIN g.nodes)
        children == Targets(neighbors(sub.graph, nx))
    IN
    IF real /\ signed \notin DOMAIN literals_nx
    THEN [ok |-> FALSE, g |-> g, nxl |-> nxl, cache |-> cache]
    ELSE
    LET new_nx == IF real THEN literals_nx[signed] ELSE fresh
        g2     == IF real THEN g ELSE add_node(g, kind)
        nxl2   == IF IsLiteralKind(kind) /\ ~real
                  THEN Insert(nxl, fresh,
                              IF lit > 0 THEN lit + TseitinOffset
                              ELSE lit - TseitinOffset)
                  ELSE nxl
        cache2 == Insert(cache, nx, new_nx)
    IN SpliceLoop(sub, Tail(order), re_indices, literals_nx,
                  AddEdges(g2, new_nx, children, cache2), nxl2, cache2)

\* The edges into the vertex nx, the edge added last first
incoming(g, nx) == Rev(SelectSeq(g.edges, LAMBDA e : e[2] = nx))

\* The sequence s without its first occurrence of e
RECURSIVE RemoveFirst(_, _)
RemoveFirst(s, e) ==
    IF s = <<>> THEN <<>>
    ELSE IF Head(s) = e THEN Tail(s)
    ELSE <<Head(s)>> \o RemoveFirst(Tail(s), e)

\* remove_edge(parent_edge) and add_edge(parent_node, new_sub_root) for
\* every edge into replace
RECURSIVE Rewire(_, _, _)
Rewire(g, parents, new_sub_root) ==
    IF parents = <<>> THEN g
    ELSE LET e == Head(parents) IN
         Rewire(add_edge([g EXCEPT !.edges = RemoveFirst(g.edges, e)],
                         e[1], new_sub_root),
                Tail(parents), new_sub_root)

\* The temporary files of add_clause
INTER_CNF == "intermediate.cnf"
INTER_NNF == "intermediate.nnf"

\* An outcome of add_clause that panicked: g2 and nxl2 are what it leaves,
\* fs the temporary files that exist when it panics.
Stopped(g2, nxl2, r, fs) ==
    [done |-> FALSE, g |-> g2, nxl |-> nxl2, replace |-> r,
     new_sub_root |-> 0, unsat |-> FALSE, files |-> fs,
     compiler_failed |-> FALSE]

\* The ways the compiler boundary fails: the compiler ends with a non-zero
\* status, its output cannot be read, or its output cannot be parsed.
CompilerFailures == {"status", "unreadable", "unparsable"}

\* The temporary files that exist when the boundary fails: the CNF was
\* written before the compiler ran; the output exists when it was written.
FailureFiles(kind) ==
    IF kind = "unparsable" THEN {INTER_CNF, INTER_NNF} ELSE {INTER_CNF}

\* The outcomes of add_clause when compile_cnf or build_ddnnf fails:
\* add_clause returns no error value, so the failure ends the call where it
\* happens, before the graph is written and before the files are removed.
CompilerFailed(g, nxl, replace) ==
    {[Stopped(g, nxl, replace, FailureFiles(kind))
         EXCEPT !.compiler_failed = TRUE] : kind \in CompilerFailures}

\* The end of add_clause: sp is what the walk over sub left; the parents of
\* replace are rewired to the image of sub's root.
Relink(sp, sub, replace) ==
    IF ~sp.ok THEN Stopped(sp.g, sp.nxl, replace, {INTER_CNF, INTER_NNF})
    ELSE [done |-> TRUE,
          g |-> Rewire(sp.g, incoming(sp.g, replace), sp.cache[sub.root]),
          nxl |-> sp.nxl, replace |-> replace,
          new_sub_root |-> sp.cache[sub.root],
          unsat |-> sub.graph.nodes[sub.root] = "False",
          files |-> {}, compiler_failed |-> FALSE]

\* add_clause from the compiled circuit sub on
Graft(g, nxl, replace, re_indices, sub) ==
    {Relink(SpliceLoop(sub, DfsPostOrder(sub.graph, sub.root), re_indices,
                       literals_nx, g, nxl, << >>),
            sub, replace) :
        literals_nx \in ReindexOutcomes(nxl)}

\* add_clause from the CNF t on: the file of the CNF, the compiler, the
\* maximum of the keys of re_indices (which panics on an empty map), the
\* graft
Recompile(g, nxl, replace, t) ==
    IF ~t.ok THEN {Stopped(g, nxl, replace, {})}
    ELSE CompilerFailed(g, nxl, replace) \cup
         (IF DOMAIN t.re_indices = {}
          THEN {Stopped(g, nxl, replace, {INTER_CNF, INTER_NNF})}
          ELSE UNION {Graft(g, nxl, replace, t.re_indices,
                            compile(t.cnf, shape)) : shape \in Shapes})

\* add_clause from the located vertex on
EditAt(g, nxl, lc, clause, loc) ==
    IF ~loc.ok THEN {Stopped(g, nxl, 0, {})}
    ELSE Recompile(g, nxl, loc.nx,
                   transform_to_cnf(g, nxl, lc, loc.nx, Some(clause)))

\* The outcomes of add_clause(clause) on the graph (g, rt, nxl, lc): done is
\* FALSE when the call panics, and g, nxl and files are the graph, the
\* literal values and the temporary files it leaves behind.
add_clause(g, rt, nxl, lc, clause) ==
    UNION {EditAt(g, nxl, lc, clause, loc) :
              loc \in closest_unsplitable_and(g, rt, lc, clause)}

\* ----------------------------------------------------------- the circuits

Edges(g, es) == [nodes |-> Vtx(g), edges |-> es]

\* x3 and ((x1 and x2) or (-x1 and -x2)), the leaves first
CircuitA ==
    [graph |-> Edges(<<"PositiveLiteral", "PositiveLiteral", "NegativeLiteral",
                       "NegativeLiteral", "And", "And", "Or",
                       "PositiveLiteral", "And">>,
                     <<<<4, 0>>, <<4, 1>>, <<5, 2>>, <<5, 3>>, <<6, 4>>,
                       <<6, 5>>, <<8, 6>>, <<8, 7>>>>),
     root |-> 8,
     nx_literals |-> (0 :> 1) @@ (1 :> 2) @@ (2 :> -1) @@ (3 :> -2) @@ (7 :> 3)]

\* x1 and x2, the root first
CircuitB ==
    [graph |-> Edges(<<"And", "PositiveLiteral", "PositiveLiteral">>,
                     <<<<0, 1>>, <<0, 2>>>>),
     root |-> 0,
     nx_literals |-> (1 :> 1) @@ (2 :> 2)]

\* (x1 and x2) or (-x1 and -x2), the root an Or and first
CircuitC ==
    [graph |-> Edges(<<"Or", "And", "And", "PositiveLiteral",
                       "PositiveLiteral", "NegativeLiteral",
                       "NegativeLiteral">>,
                     <<<<0, 1>>, <<0, 2>>, <<1, 3>>, <<1, 4>>, <<2, 5>>,
                       <<2, 6>>>>),
     root |-> 0,
     nx_literals |-> (3 :> 1) @@ (4 :> 2) @@ (5 :> -1) @@ (6 :> -2)]

\* (x1 and x2) and x3, vertex 0 an inner And
CircuitD ==
    [graph |-> Edges(<<"And", "PositiveLiteral", "PositiveLiteral",
                       "PositiveLiteral", "And">>,
                     <<<<0, 1>>, <<0, 2>>, <<4, 0>>, <<4, 3>>>>),
     root |-> 4,
     nx_literals |-> (1 :> 1) @@ (2 :> 2) @@ (3 :> 3)]

\* (x1 and true) or -x1, vertex 0 a True
CircuitE ==
    [graph |-> Edges(<<"True", "PositiveLiteral", "NegativeLiteral", "And",
                       "Or">>,
                     <<<<3, 1>>, <<3, 0>>, <<4, 3>>, <<4, 2>>>>),
     root |-> 4,
     nx_literals |-> (1 :> 1) @@ (2 :> -1)]

\* x3 and ((x1 or -x1) and (x2 or -x2))
CircuitF ==
    [graph |-> Edges(<<"PositiveLiteral", "NegativeLiteral", "Or",
                       "PositiveLiteral", "NegativeLiteral", "Or", "And",
                       "PositiveLiteral", "And">>,
                     <<<<2, 0>>, <<2, 1>>, <<5, 3>>, <<5, 4>>, <<6, 2>>,
                       <<6, 5>>, <<8, 6>>, <<8, 7>>>>),
     root |-> 8,
     nx_literals |-> (0 :> 1) @@ (1 :> -1) @@ (3 :> 2) @@ (4 :> -2) @@ (7 :> 3)]

Circuits == {CircuitA, CircuitB, CircuitC, CircuitD, CircuitE, CircuitF}

\* The clauses handed to add_clause: up to MaxClauseLen literals over the
\* variables 1..MaxVar, in the order 1, -1, 2, -2, ...
Lits == {l \in (-MaxVar)..MaxVar : l # 0}

Clauses ==
    {c \in UNION {[1..n -> Lits] : n \in 0..MaxClauseLen} :
        \A i \in 1..(Len(c) - 1) : LitKey(c[i]) < LitKey(c[i + 1])}

\* ----------------------------------------------------------------- Config

\* An Option<Vec<bool>>: the cached state of the solver
NoState == [some |-> FALSE, val |-> {}]
SomeState(v) == [some |-> TRUE, val |-> v]

\* Config::from(literals)
from(literals) ==
    [literals |-> literals, sat_state |-> NoState,
     sat_state_complete |-> FALSE]

\* Config::extend(iter): the literals sorted, each kept once
extend(c, iter) ==
    [c EXCEPT !.sat_state_complete = FALSE,
              !.literals = SortedSeq(Range(c.literals \o iter))]

\* Config::from_disjoint(left, right)
from_disjoint(left, right) ==
    [literals |-> left.literals \o right.literals,
     sat_state |->
        IF left.sat_state.some /\ right.sat_state.some
        THEN (IF Len(left.literals) >= Len(right.literals)
              THEN left.sat_state ELSE right.sat_state)
        ELSE IF left.sat_state.some THEN left.sat_state
        ELSE IF right.sat_state.some THEN right.sat_state
        ELSE NoState,
     sat_state_complete |-> FALSE]

set_sat_state(c, state) ==
    [c EXCEPT !.sat_state_complete = TRUE, !.sat_state = SomeState(state)]

is_sat_state_complete(c) == c.sat_state_complete

\* The solver's side. A state is kept as the set of the literals whose
\* marks are set in it: none in a new state, and a run of the solver marks
\* the literals handed to it.
new_state == {}
is_sat_in_subgraph_cached(literals, state) == state \cup Range(literals)

\* Config::update_sat_state. With debug assertions a complete flag without
\* a cached state panics.
update_sat_state(c, debug) ==
    IF is_sat_state_complete(c)
    THEN [ok |-> ~debug \/ c.sat_state.some, config |-> c]
    ELSE [ok |-> TRUE,
          config |->
             IF c.sat_state.some
             THEN [c EXCEPT !.sat_state.val =
                       is_sat_in_subgraph_cached(c.literals, @)]
             ELSE [set_sat_state(c, new_state) EXCEPT !.sat_state.val =
                       is_sat_in_subgraph_cached(c.literals, @)]]

\* ----------------------------------------------------------------- Sample

\* Sample::new(vars)
new(vs) ==
    [complete_configs |-> <<>>, partial_configs |-> <<>>, vars |-> vs,
     literals |-> {}]

add_complete(s, c) ==
    [s EXCEPT !.literals = @ \cup Range(c.literals),
              !.complete_configs = Append(@, c)]

add_partial(s, c) ==
    [s EXCEPT !.literals = @ \cup Range(c.literals),
              !.partial_configs = Append(@, c)]

\* is_config_complete with at most in the place of equals
is_config_completeAtMost(s, c) == Len(c.literals) <= Cardinality(s.vars)

is_config_complete(s, c) == Len(c.literals) = Cardinality(s.vars)

\* Sample::add(config); ok is FALSE when the debug assertion of add (and of
\* is_config_complete) fails in a build with debug assertions.
add(s, c, debug) ==
    IF debug /\ ~(Len(c.literals) <= Cardinality(s.vars))
    THEN [ok |-> FALSE, sample |-> s]
    ELSE [ok |-> TRUE,
          sample |-> IF is_config_complete(s, c) THEN add_complete(s, c)
                     ELSE add_partial(s, c)]

\* Sample::extend(iter): add for every config, in order
RECURSIVE extend_configs(_, _, _)
extend_configs(s, configs, debug) ==
    IF configs = <<>> THEN [ok |-> TRUE, sample |-> s]
    ELSE IF ~add(s, Head(configs), debug).ok THEN [ok |-> FALSE, sample |-> s]
    ELSE extend_configs(add(s, Head(configs), debug).sample, Tail(configs),
                        debug)

\* Sample::new_from_configs(configs)
new_from_configs(configs, debug) ==
    extend_configs(
        [complete_configs |-> <<>>, partial_configs |-> <<>>,
         vars |-> {Abs(l) : l \in
                     UNION {Range(configs[i].literals) : i \in DOMAIN configs}},
         literals |-> UNION {Range(configs[i].literals) : i \in DOMAIN configs}],
        configs, debug)

\* Sample::iter: the complete configs, then the partial ones
iter(s) == s.complete_configs \o s.partial_configs

len(s) == Len(s.complete_configs) + Len(s.partial_configs)

is_empty(s) == s.complete_configs = <<>> /\ s.partial_configs = <<>>

\* ------------------------------------------------------- the state machine

\* The literal lists over the variables 1..n handed to Config::from and
\* Config::extend: up to MaxConfigLen literals in ascending order.
LiteralLists(n) ==
    {l \in UNION {[1..k -> {x \in (-n)..n : x # 0}] : k \in 0..MaxConfigLen} :
        \A i \in 1..(Len(l) - 1) : l[i] < l[i + 1]}

\* No Sample exists and no operation on a Config has run.
SamplerIdle ==
    /\ sample = new({})
    /\ added = <<>>
    /\ sample_state = "unbuilt"
    /\ config = from(<<>>)
    /\ cop = "from"

\* No circuit is loaded.
GraphIdle ==
    /\ graph = Edges(<<>>, <<>>)
    /\ root = 0
    /\ nx_literals = << >>
    /\ literal_children = << >>
    /\ or_support = FALSE
    /\ panicked = FALSE
    /\ history = <<>>
    /\ files = {}
    /\ last = [op |-> "idle"]

\* IntermediateGraph::new on a parsed circuit
Init ==
    \E c \in Circuits, withOr \in BOOLEAN :
        /\ SamplerIdle
        /\ debug_assertions = FALSE
        /\ ~is_cyclic_directed(c.graph)
        /\ graph = c.graph
        /\ root = c.root
        /\ nx_literals = c.nx_literals
        /\ literal_children =
              get_literal_diffs(c.graph, c.nx_literals, c.root, withOr)
        /\ or_support = withOr
        /\ panicked = FALSE
        /\ history = <<>>
        /\ files = {}
        /\ last = [op |-> "new", clause |-> <<>>, done |-> TRUE,
                   replace |-> 0, new_sub_root |-> 0, unsat |-> FALSE,
                   pre_models |-> {}, pre_parents |-> {},
                   compiler_failed |-> FALSE]

\* One call of add_clause. root and literal_children are not written.
\* history lists the clauses of the calls so far; last describes the latest
\* call and keeps the models the circuit had and the parents the replaced
\* vertex had before it.
AddClause(clause) ==
    /\ ~panicked
    /\ Len(history) < MaxEdits
    /\ \E r \in add_clause(graph, root, nx_literals, literal_children, clause) :
          /\ graph' = r.g
          /\ nx_literals' = r.nxl
          /\ panicked' = ~r.done
          /\ files' = r.files
          /\ last' = [op |-> "add_clause", clause |-> clause,
                      done |-> r.done, replace |-> r.replace,
                      new_sub_root |-> r.new_sub_root, unsat |-> r.unsat,
                      pre_models |-> Models(graph, nx_literals, root),
                      pre_parents |->
                          {e[1] : e \in Range(incoming(graph, r.replace))},
                      compiler_failed |-> r.compiler_failed]
    /\ history' = Append(history, clause)
    /\ UNCHANGED <<root, literal_children, or_support>>
    /\ UNCHANGED <<sampleVars, configVars>>

Next == \E clause \in Clauses : AddClause(clause)

Spec == Init /\ [][Next]_vars

\* ---------------------------------------------- the state machine of Sample

\* A build with or without debug assertions, and no Sample yet
SampleInit ==
    /\ GraphIdle
    /\ SamplerIdle
    /\ debug_assertions \in BOOLEAN

\* Sample::new(vars)
SampleNew(vs) ==
    /\ sample_state = "unbuilt"
    /\ sample' = new(vs)
    /\ sample_state' = "built"
    /\ UNCHANGED <<added, debug_assertions, graphVars, configVars>>

\* Sample::new_from_configs(configs); a failed debug assertion ends the
\* run without a Sample.
SampleNewFromConfigs(configs) ==
    /\ sample_state = "unbuilt"
    /\ LET r == new_from_configs(configs, debug_assertions) IN
       IF r.ok
       THEN sample' = r.sample /\ added' = configs /\ sample_state' = "built"
       ELSE sample_state' = "panicked" /\ UNCHANGED <<sample, added>>
    /\ UNCHANGED <<debug_assertions, graphVars, configVars>>

\* Sample::add(config)
SampleAdd(c) ==
    /\ sample_state = "built"
    /\ Len(added) < MaxConfigs
    /\ LET r == add(sample, c, debug_assertions) IN
       IF r.ok
       THEN sample' = r.sample /\ added' = Append(added, c)
            /\ UNCHANGED sample_state
       ELSE sample_state' = "panicked" /\ UNCHANGED <<sample, added>>
    /\ UNCHANGED <<debug_assertions, graphVars, configVars>>

\* The configs handed to a Sample
SampleConfigs == {from(l) : l \in LiteralLists(MaxSampleVar)}

\* The config lists a Sample can be made from once: none when it exists
ConfigLists ==
    IF sample_state = "unbuilt"
    THEN UNION {[1..k -> SampleConfigs] : k \in 0..MaxConfigs}
    ELSE {}

SampleNext ==
    \/ \E vs \in SUBSET (1..MaxSampleVar) : SampleNew(vs)
    \/ \E configs \in ConfigLists : SampleNewFromConfigs(configs)
    \/ \E c \in SampleConfigs : SampleAdd(c)

SampleSpec == SampleInit /\ [][SampleNext]_vars

\* ---------------------------------------------- the state machine of Config

\* Config::from on a literal list
ConfigInit ==
    /\ GraphIdle
    /\ sample = new({}) /\ added = <<>> /\ sample_state = "unbuilt"
    /\ debug_assertions \in BOOLEAN
    /\ \E l \in LiteralLists(MaxConfigVar) : config = from(l)
    /\ cop = "from"

ConfigExtend(it) ==
    /\ cop # "panicked"
    /\ config' = extend(config, it)
    /\ cop' = "extend"
    /\ UNCHANGED <<graphVars, sampleVars>>

ConfigSetSatState(state) ==
    /\ cop # "panicked"
    /\ config' = set_sat_state(config, state)
    /\ cop' = "set_sat_state"
    /\ UNCHANGED <<graphVars, sampleVars>>

\* Config::update_sat_state; a failed debug assertion leaves the config.
ConfigUpdateSatState ==
    /\ cop # "panicked"
    /\ config' = update_sat_state(config, debug_assertions).config
    /\ cop' = IF update_sat_state(config, debug_assertions).ok
              THEN "update_sat_state" ELSE "panicked"
    /\ UNCHANGED <<graphVars, sampleVars>>

\* The configs the config is joined with: made by Config::from, with or
\* without a cached state
OtherConfigs ==
    {from(l) : l \in LiteralLists(MaxConfigVar)}
    \cup {set_sat_state(from(l), Range(l)) : l \in LiteralLists(MaxConfigVar)}

\* Config::from_disjoint with the config as the left or the right one
ConfigFromDisjoint(other, left) ==
    /\ cop # "panicked"
    /\ Len(config.literals) + Len(other.literals) <= MaxJoined
    /\ config' = IF left THEN from_disjoint(config, other)
                 ELSE from_disjoint(other, config)
    /\ cop' = "from_disjoint"
    /\ UNCHANGED <<graphVars, sampleVars>>

ConfigNext ==
    \/ \E it \in LiteralLists(MaxConfigVar) : ConfigExtend(it)
    \/ \E state \in SUBSET {x \in (-MaxConfigVar)..MaxConfigVar : x # 0} :
          ConfigSetSatState(state)
    \/ ConfigUpdateSatState
    \/ \E other \in OtherConfigs, left \in BOOLEAN :
          ConfigFromDisjoint(other, left)

ConfigSpec == ConfigInit /\ [][ConfigNext]_vars


\* ------------------------------------------------------------------ claims

\* The latest add_clause call returned.
Completed == last.op = "add_clause" /\ last.done

\* Every variable of the clause c is a variable of the circuit.
OverVars(c) ==
    \A i \in 1..Len(c) : Abs(c[i]) \in OriginalVars(nx_literals)

\* C1. Edit correctness: after add_clause(C) returned for a nonempty clause
\* C over the variables of the circuit, the models of the circuit below the
\* root, projected onto the original variables, are the models it had
\* before that also satisfy C.
EditCorrectness ==
    (Completed /\ last.clause # <<>> /\ OverVars(last.clause)) =>
        Models(graph, nx_literals, root) =
            last.pre_models
            \cap ClauseModels(last.clause, OriginalVars(nx_literals))

\* The models of the CNF of t, cut down to the compact variables 1..V and
\* mapped back through the returned map.
MappedBack(t, V) ==
    {{t.re_indices[c] : c \in T \cap (1..V) \cap DOMAIN t.re_indices} :
        T \in CnfModels(t.cnf)}

\* C2. Tseitin equisatisfiability: for every vertex R for which
\* transform_to_cnf(R, None) returns, the models of the returned CNF,
\* projected onto the compact variables 1..V and mapped back through the
\* returned map, are the models of the subcircuit below R over the
\* variables the map names.
TseitinEquisatisfiability ==
    \A R \in DOMAIN graph.nodes :
        LET t == transform_to_cnf(graph, nx_literals, literal_children, R,
                                  None)
            V == Cardinality({Abs(l) : l \in literal_children[R]})
            W == {t.re_indices[c] : c \in (1..V) \cap DOMAIN t.re_indices}
        IN t.ok => MappedBack(t, V) = ModelsOver(graph, nx_literals, R, W)

\* C3. Acyclicity: after any sequence of add_clause calls the editable graph
\* has no cycle.
Acyclicity == ~is_cyclic_directed(graph)

\* An add_clause call returned after it replaced a vertex that had parents:
\* the new subgraph hangs below the root.
AcyclicityWitness ==
    /\ Completed
    /\ last.new_sub_root \in ReachFrom(graph, {root})
    /\ Successors(graph, {last.new_sub_root}) # {}

\* C4. Literal uniqueness: no two vertices carry the same signed literal
\* value in nx_literals, after any sequence of add_clause calls.
LiteralUniqueness ==
    \A u, v \in DOMAIN nx_literals :
        nx_literals[u] = nx_literals[v] => u = v

\* The node array rebuild returns from the start vertex v
Lowered(v) == rebuild(graph, nx_literals, v)

IsInner(node) == node.ntype.tag \in {"And", "Or"}

\* C5. Post-order: rebuild returns from every start vertex; in its node
\* array every child index of an And or Or node is below the index of the
\* node, and the last node is the start vertex.
PostOrder ==
    \A v \in DOMAIN graph.nodes :
        LET r == Lowered(v)
            n == Len(r.nodes)
            order == DfsPostOrder(graph, v)
        IN /\ r.ok
           /\ \A i \in 1..n :
                IsInner(r.nodes[i]) =>
                    \A j \in 1..Len(r.nodes[i].ntype.children) :
                        r.nodes[i].ntype.children[j] < i - 1
           /\ n = Len(order)
           /\ order[n] = v
           /\ IsInner(r.nodes[n]) = (graph.nodes[v] \in {"And", "Or"})
           /\ r.nodes[n].ntype.tag = "Literal" =>
                 r.nodes[n].ntype.literal = nx_literals[v]

\* After an add_clause call that returned, the node array from the root
\* holds an inner node whose child is an inner node again.
PostOrderWitness ==
    /\ Completed
    /\ LET r == Lowered(root) IN
       \E i \in 1..Len(r.nodes) :
           /\ IsInner(r.nodes[i])
           /\ \E j \in 1..Len(r.nodes[i].ntype.children) :
                 IsInner(r.nodes[r.nodes[i].ntype.children[j] + 1])

RECURSIVE Product(_, _)
Product(nodes, ch) ==
    IF ch = <<>> THEN 1
    ELSE nodes[Head(ch) + 1].count * Product(nodes, Tail(ch))

RECURSIVE Sum(_, _)
Sum(nodes, ch) ==
    IF ch = <<>> THEN 0
    ELSE nodes[Head(ch) + 1].count + Sum(nodes, Tail(ch))

\* C6. Cardinality law: in every node array rebuild returns, the count of an
\* And node is the product and the count of an Or node the sum of the counts
\* of its children, a Literal and a True node count 1 and a False node 0.
CardinalityLaw ==
    \A v \in DOMAIN graph.nodes :
        LET r == Lowered(v) IN
        \A i \in 1..Len(r.nodes) :
            LET node == r.nodes[i]
                tag  == node.ntype.tag
            IN CASE tag = "And" ->
                      node.count = Product(r.nodes, node.ntype.children)
                 [] tag = "Or" ->
                      node.count = Sum(r.nodes, node.ntype.children)
                 [] tag \in {"Literal", "True"} -> node.count = 1
                 [] tag = "False" -> node.count = 0
                 [] OTHER -> FALSE

\* After an add_clause call that returned, the node array from the root
\* holds an Or node and an And node that count two or more.
CardinalityLawWitness ==
    /\ Completed
    /\ LET r == Lowered(root) IN
       /\ \E i \in 1..Len(r.nodes) :
             r.nodes[i].ntype.tag = "Or" /\ r.nodes[i].count >= 2
       /\ \E i \in 1..Len(r.nodes) :
             r.nodes[i].ntype.tag = "And" /\ r.nodes[i].count >= 2

\* The variables of the clause c
ClauseVars(c) == {Abs(c[i]) : i \in 1..Len(c)}

\* C7. Locator coverage: for every nonempty clause whose literals all occur
\* in the circuit (so its variables do), closest_unsplitable_and returns an
\* And vertex whose literal support covers every variable of the clause.
LocatorCoverage ==
    \A c \in Clauses :
        (c # <<>> /\ Range(c) \subseteq LiteralsBelow(graph, nx_literals, root))
        => \A r \in closest_unsplitable_and(graph, root, literal_children, c) :
              /\ r.ok
              /\ graph.nodes[r.nx] = "And"
              /\ ClauseVars(c) \subseteq {Abs(l) : l \in r.lits}

\* No And vertex below the root has a literal of the clause c in its
\* literal support.
NoAndIntersects(c) ==
    \A v \in ReachFrom(graph, {root}) :
        (graph.nodes[v] = "And" /\ v \in DOMAIN literal_children)
        => \A i \in 1..Len(c) : c[i] \notin literal_children[v]

\* C8. Locator edge case: for a nonempty clause that no And vertex's literal
\* support intersects, closest_unsplitable_and returns the root vertex.
LocatorEdgeCase ==
    \A c \in Clauses :
        (c # <<>> /\ NoAndIntersects(c))
        => \A r \in closest_unsplitable_and(graph, root, literal_children, c) :
              r.ok /\ r.nx = root

\* C9. Empty clause insertion: closest_unsplitable_and on the empty clause
\* returns the sentinel (vertex 0, empty set), and add_clause with the empty
\* clause returns and leaves the models of the circuit as they were.
EmptyClauseInsertion ==
    /\ closest_unsplitable_and(graph, root, literal_children, <<>>)
          = {[ok |-> TRUE, nx |-> 0, lits |-> {}]}
    /\ (last.op = "add_clause" /\ last.clause = <<>>)
          => /\ last.done
             /\ Models(graph, nx_literals, root) = last.pre_models

\* The cardinality of the root in the lowered node array
RootCount ==
    LET r == Lowered(root) IN r.nodes[Len(r.nodes)].count

\* C10. Unsatisfiable insertion sequence: for a variable x of the circuit,
\* once add_clause([x]) returned and add_clause([-x]) was called after it,
\* that call returned too and the lowered root cardinality is zero.
UnsatisfiableInsertion ==
    \A x \in OriginalVars(nx_literals) :
        history = <<<<x>>, <<-x>>>> => (~panicked /\ RootCount = 0)

\* C11. Failure semantics: when the compiler fails, or its output cannot be
\* read or parsed, during add_clause of a nonempty clause, the call leaves the vertices, the
\* edges and nx_literals as they were and neither intermediate.cnf nor
\* intermediate.nnf exists afterwards.
FailureSemantics ==
    [][(last'.op = "add_clause" /\ last'.clause # <<>>
           /\ last'.compiler_failed)
         => /\ graph' = graph
            /\ nx_literals' = nx_literals
            /\ files' = {}]_vars

\* C12. Literal-support consistency: after construction and after every
\* add_clause call of a nonempty clause that returned, literal_children holds, for every And
\* vertex the root reaches, the signed literal values that occur in the
\* subcircuit below that vertex, no more and no less.
LiteralSupportConsistency ==
    (last.op = "new" \/ (Completed /\ last.clause # <<>>)) =>
        \A v \in ReachFrom(graph, {root}) :
            graph.nodes[v] = "And" =>
                /\ v \in DOMAIN literal_children
                /\ literal_children[v] = LiteralsBelow(graph, nx_literals, v)

\* C14. Rewire: after add_clause of a nonempty clause returned, with R the
\* vertex the locator chose and r_new the image of the compiled root, no
\* edge into R remains, every former parent of R has an edge to r_new, the
\* root does not reach R and the root reaches r_new; also when R is the
\* root vertex.
RewireReplaces ==
    (Completed /\ last.clause # <<>>) =>
        /\ incoming(graph, last.replace) = <<>>
        /\ \A p \in last.pre_parents :
              <<p, last.new_sub_root>> \in Range(graph.edges)
        /\ last.replace \notin ReachFrom(graph, {root})
        /\ last.new_sub_root \in ReachFrom(graph, {root})

\* The indices (from 1) of the And and Or nodes of a node array
Gates(nodes) == {i \in 1..Len(nodes) : IsInner(nodes[i])}

\* The index (from 1) of the first Literal node of the variable x
FirstSeen(nodes, x) ==
    CHOOSE i \in 1..Len(nodes) :
        /\ nodes[i].ntype.tag = "Literal" /\ Abs(nodes[i].ntype.literal) = x
        /\ \A j \in 1..(i - 1) :
              ~(nodes[j].ntype.tag = "Literal"
                /\ Abs(nodes[j].ntype.literal) = x)

\* The variable partition of one run of transform_to_cnf: nodes is the
\* lowered sequence, loop what the loop over it left, V the number of
\* variables of the support and t the result.
Partitioned(nodes, loop, V, t) ==
    LET map  == loop.map
        orig == DOMAIN map
        aux  == {loop.clause_var[i] : i \in Gates(nodes)}
    IN /\ {map[x] : x \in orig} = 1..V
       /\ \A x, y \in orig : map[x] = map[y] => x = y
       /\ \A x, y \in orig :
             map[x] < map[y] <=> FirstSeen(nodes, x) < FirstSeen(nodes, y)
       /\ \A i, j \in Gates(nodes) :
             loop.clause_var[i] = loop.clause_var[j] => i = j
       /\ aux = (V + 1)..(V + Cardinality(Gates(nodes)))
       /\ aux \cap {map[x] : x \in orig} = {}
       /\ t.cnf.nvars = V + Cardinality(Gates(nodes))
       /\ DOMAIN t.re_indices = {map[x] : x \in orig}
       /\ \A x \in orig : t.re_indices[map[x]] = x

\* The partition of the run from the vertex S with the clause c
PartitionAt(S, V, low, c) ==
    Partitioned(low.nodes,
                TseitinLoop(low.nodes, 0, << >>, <<>>, V + 1, 1,
                            [i \in 1..Len(low.nodes) |-> 0]),
                V,
                transform_to_cnf(graph, nx_literals, literal_children, S, c))

\* C15. Tseitin variable partition: in every run of transform_to_cnf(S, C)
\* that returns, with V the number of variables of literal_children[S], the
\* original variables are renumbered one-to-one onto 1..V in the order of
\* their first literal node, every And and Or node of the lowered sequence
\* has its own auxiliary variable and these are V+1, V+2, ..., none of
\* them is a renumbered variable, the header counts V plus the number of
\* And and Or nodes, and the returned map is the inverse of the renumbering.
TseitinPartition ==
    \A S \in DOMAIN literal_children :
        \A c \in {None} \cup {Some(x) : x \in Clauses} :
            transform_to_cnf(graph, nx_literals, literal_children, S, c).ok
            => PartitionAt(S,
                           Cardinality({Abs(l) : l \in literal_children[S]}),
                           rebuild(graph, nx_literals, S), c)

\* The And vertices below the root whose literal support holds a literal
\* of the clause c with its polarity, and those whose support holds a
\* variable of c in either polarity.
SignedCandidates(c) ==
    {v \in ReachFrom(graph, {root}) :
        /\ graph.nodes[v] = "And"
        /\ v \in DOMAIN literal_children
        /\ Range(c) \cap literal_children[v] # {}}

VariableCandidates(c) ==
    {v \in ReachFrom(graph, {root}) :
        /\ graph.nodes[v] = "And"
        /\ v \in DOMAIN literal_children
        /\ ClauseVars(c) \cap {Abs(l) : l \in literal_children[v]} # {}}

\* The candidates the locator collects for the clause c
Candidates(c) ==
    CachedAnds(graph, literal_children, c, Bfs(graph, root), <<>>)

\* The clause d is the clause c with some of its literals negated.
NegatedSome(c, d) ==
    Len(c) = Len(d) /\ \A i \in 1..Len(c) : Abs(c[i]) = Abs(d[i])

\* The locator returns for the clause c, whatever the sort does.
Returns(c) ==
    \A r \in closest_unsplitable_and(graph, root, literal_children, c) : r.ok

\* C16 as stated. Locator candidates by variable: the candidates of
\* closest_unsplitable_and(C) are the And vertices below the root whose
\* literal support holds a literal of C in either polarity, so when the
\* locator returns for C and for C with some literals negated, its results
\* are the same.
LocatorCandidatesByVariable ==
    \A c \in Clauses :
        (c # <<>> /\ Candidates(c).ok) =>
            /\ Range(Candidates(c).ands) = VariableCandidates(c)
            /\ \A d \in Clauses :
                  (NegatedSome(c, d) /\ Returns(c) /\ Returns(d)) =>
                      closest_unsplitable_and(graph, root, literal_children, c)
                      = closest_unsplitable_and(graph, root,
                                                literal_children, d)

\* C16 as amended. Locator candidates by signed literal: the candidates of
\* closest_unsplitable_and(C) are the And vertices below the root whose
\* literal support holds a literal of C with the polarity it has in C, and
\* the locator returns one of them with its support.
LocatorCandidatesSigned ==
    \A c \in Clauses :
        (c # <<>> /\ Candidates(c).ok) =>
            /\ Range(Candidates(c).ands) = SignedCandidates(c)
            /\ \A r \in closest_unsplitable_and(graph, root,
                                                 literal_children, c) :
                  r.ok => /\ r.nx \in SignedCandidates(c)
                          /\ r.lits = literal_children[r.nx]

\* After an add_clause call that returned, the locator returns for a clause
\* one of whose variables occurs, in the other polarity only, in the
\* support of an And vertex that is no candidate.
LocatorCandidatesWitness ==
    /\ Completed
    /\ \E c \in Clauses :
          /\ c # <<>> /\ Returns(c)
          /\ SignedCandidates(c) # {}
          /\ VariableCandidates(c) # SignedCandidates(c)

\* The candidate at position i of sorted holds the support of every
\* candidate after it.
Passes(sorted, lc, i) ==
    \A j \in (i + 1)..Len(sorted) : lc[sorted[j]] \subseteq lc[sorted[i]]

\* The positions k with every candidate at 1..k passing
PassedUpTo(sorted, lc) ==
    {k \in 1..Len(sorted) : \A i \in 1..k : Passes(sorted, lc, i)}

\* The last candidate of the passing prefix, the first candidate when even
\* that one fails
LastPassing(sorted, lc) ==
    IF PassedUpTo(sorted, lc) = {} THEN sorted[1]
    ELSE sorted[CHOOSE k \in PassedUpTo(sorted, lc) :
                   \A m \in PassedUpTo(sorted, lc) : m <= k]

\* C17 for the candidates ands
WalkOver(ands, lc, results) ==
    /\ \A sorted \in SortOutcomes(ands, lc) :
          Walk(sorted, lc, 1, sorted[1]) = LastPassing(sorted, lc)
    /\ results = {[ok |-> TRUE, nx |-> LastPassing(sorted, lc),
                   lits |-> lc[LastPassing(sorted, lc)]] :
                    sorted \in SortOutcomes(ands, lc)}

\* C17. Locator walk: with the candidates sorted by descending support
\* size, closest_unsplitable_and returns the last candidate k such that
\* every candidate at the positions up to k holds the support of every
\* candidate after it; the walk stops at the first candidate that fails,
\* and when the first candidate fails the first candidate is returned.
LocatorWalk ==
    \A c \in Clauses :
        (c # <<>> /\ Candidates(c).ok /\ Candidates(c).ands # <<>>) =>
            WalkOver(Candidates(c).ands, literal_children,
                     closest_unsplitable_and(graph, root, literal_children,
                                             c))

\* Some sorted arrangement of the candidates ands, three or more, has a
\* first candidate that passes and a second that fails.
StopsSecond(ands, lc) ==
    \E sorted \in SortOutcomes(ands, lc) :
        /\ Len(sorted) >= 3
        /\ Passes(sorted, lc, 1)
        /\ ~Passes(sorted, lc, 2)

\* After an add_clause call that returned, the walk for some clause goes
\* past the first candidate and stops at the second, with a candidate left
\* behind it.
LocatorWalkWitness ==
    /\ Completed
    /\ \E c \in Clauses :
          /\ c # <<>> /\ Candidates(c).ok
          /\ StopsSecond(Candidates(c).ands, literal_children)

\* The position of the vertex v in the sequence s
PositionIn(s, v) == CHOOSE i \in 1..Len(s) : s[i] = v

\* The arrangement sorted keeps candidates of equal support size in the
\* order they have in ands, the order of the breadth-first walk.
TiesInWalkOrder(sorted, ands, lc) ==
    \A i, j \in 1..Len(sorted) :
        (i < j /\ Cardinality(lc[sorted[i]]) = Cardinality(lc[sorted[j]]))
        => PositionIn(ands, sorted[i]) < PositionIn(ands, sorted[j])

CompleteByCount(c) == Len(c.literals) = Cardinality(sample.vars)

PartialByCount(c) == ~CompleteByCount(c)

ConfigCacheFlag ==
    /\ is_sat_state_complete(config) => config.sat_state.some
    /\ cop \in {"extend", "from_disjoint"} => ~is_sat_state_complete(config)
    /\ cop = "update_sat_state" =>
          /\ is_sat_state_complete(config)
          /\ update_sat_state(config, debug_assertions).config = config

====
